---- MODULE Spec2Model ----
(***************************************************************************)
(* Gaming Hub: six browser mini-games, each a page of its own with global  *)
(* state, setInterval/setTimeout callbacks and a localStorage high score.  *)
(* One behaviour of the model is the life of one page instance: `page`     *)
(* says which game's script was loaded; the records of the other games     *)
(* keep their load-time values.                                            *)
(*                                                                         *)
(* Timers.  The browser runs a callback only while its handle is in the    *)
(* list of active timers; clearInterval/clearTimeout removes it.  For each *)
(* handle variable of the code (gameLoop, gameTimer, moleTimer,            *)
(* timerInterval) the model keeps a flag "the timer this variable refers   *)
(* to is active" and a counter `leaked` of active timers whose handle was  *)
(* overwritten by a later setInterval/setTimeout.                          *)
(***************************************************************************)
EXTENDS Integers, Sequences, FiniteSets, TLC

VARIABLES
    page,       \* which game's script this page instance runs
    track,      \* which of the histories below are kept in this behaviour
    stale,      \* cancelled timer callbacks that something still holds and may call
    keys,       \* history: first and last accepted arrow key since the last Snake tick
    storage,    \* localStorage: key -> JS value (null or string)
    sn,         \* Snake globals (part_001 lines 7-16)
    rn,         \* Runner globals (js/runner.js lines 17-37)
    wh,         \* Whack-a-Mole globals (js/whack-a-mole.js lines 16-22)
    tab2,       \* a second page instance of Whack-a-Mole on the same localStorage
    mem,        \* Memory Match state (js/memory.js lines 17-22)
    pz,         \* Image Puzzle globals (js/puzzle.js lines 17-24)
    tt,         \* Tic-Tac-Toe globals (part_001 lines 260-262) and its pending timeouts
    session     \* history: high score when the session began, best score in it

vars == <<page, track, stale, keys, storage, session, sn, rn, wh, tab2, mem, pz, tt>>

\* what the handlers of one game leave alone
NotSnake == <<page, track, rn, wh, tab2, mem, pz, tt>>
NotRunner == <<page, track, keys, sn, wh, tab2, mem, pz, tt>>
NotWhack == <<page, track, keys, sn, rn, tab2, mem, pz, tt>>
NotMemory == <<page, track, stale, keys, storage, session, sn, rn, wh, tab2, pz, tt>>
NotPuzzle == <<page, track, stale, keys, storage, session, sn, rn, wh, tab2, mem, tt>>
NotTab2 == <<page, track, stale, keys, session, sn, rn, wh, mem, pz, tt>>
NotTtt == <<page, track, stale, keys, storage, session, sn, rn, wh, tab2, mem, pz>>

(***************************************************************************)
(* Bounds of the model.                                                    *)
(***************************************************************************)
\* Math.random() is drawn from the values just below 1/RandSteps,
\* 2/RandSteps, ..., 1 where the range of the scaled value is too large to
\* enumerate.
RandSteps == 2
\* canvas.width / 10 and canvas.height / 10 of the Snake canvas (set by markup)
SnakeCols == 11
SnakeRows == 11
\* ticks on which the snake eats are taken only below this score
MaxSnakeScore == 1
\* ticks that are followed of one Snake session
MaxSnakeTicks == 8
\* on the "coil" track: the score below which the snake eats, and the ticks
\* that are followed after startGame and after each meal
MaxCoilScore == 2
MaxCoilTicks == 5
\* on the "feast" track: the most cells that the snake leaves free at the start
MaxFreeCells == 6
\* largest decimal number initially found in localStorage
MaxStored == 1
\* canvas.width and canvas.height of the Runner canvas (set by markup), in pixels
RunnerCanvasW == 100
RunnerCanvasH == 200
\* Runner ticks are taken only below this frame count
MaxFrames == 115
\* frames that are followed of a Runner session on the "long" track
MaxLongFrames == 545
\* moles are whacked only below this score
MaxWhackScore == 2
\* icons of the Memory deck (the page has 6) and counted moves per board
MemIcons == 2
MaxMemMoves == 3
\* unflip timeouts outstanding at a time
MaxPending == 2
\* mole timeouts left without a handle by late callbacks
MaxLeaked == 1
\* half the number of random moves of the Puzzle shuffle, and the caps on the
\* Puzzle's move counter and seconds counter
ShuffleHalf == 2
MaxPuzzleMoves == 2
MaxPuzzleTimer == 1
\* makeAIMove timeouts of Tic-Tac-Toe that are pending at the same time
MaxAIPending == 2

(***************************************************************************)
(* JavaScript values as far as the high-score code needs them: null,       *)
(* numbers (NaN apart) and strings (sequences of one-character strings).   *)
(***************************************************************************)
JsNull == [t |-> "null", n |-> 0, s |-> <<>>]
JsNaN == [t |-> "nan", n |-> 0, s |-> <<>>]
JsNum(k) == [t |-> "num", n |-> k, s |-> <<>>]
JsStr(chars) == [t |-> "str", n |-> 0, s |-> chars]

Digits == <<"0", "1", "2", "3", "4", "5", "6", "7", "8", "9">>

IsDigit(c) == \E i \in 1..10 : Digits[i] = c

DigitVal(c) == (CHOOSE i \in 1..10 : Digits[i] = c) - 1

AllDigits(chars) == \A i \in 1..Len(chars) : IsDigit(chars[i])

RECURSIVE ParseDigits(_)
ParseDigits(chars) ==
    IF chars = <<>> THEN 0
    ELSE 10 * ParseDigits(SubSeq(chars, 1, Len(chars) - 1)) + DigitVal(chars[Len(chars)])

RECURSIVE NumberToString(_)
\* String(k) for an integer k
NumberToString(k) ==
    IF k < 0 THEN <<"-">> \o NumberToString(0 - k)
    ELSE IF k < 10 THEN <<Digits[k + 1]>>
    ELSE NumberToString(k \div 10) \o <<Digits[(k % 10) + 1]>>

\* ToNumber applied to a string: "" is 0, an optionally signed run of digits
\* is its value, anything else is NaN
StringToNumber(chars) ==
    IF chars = <<>> THEN JsNum(0)
    ELSE IF AllDigits(chars) THEN JsNum(ParseDigits(chars))
    ELSE IF chars[1] = "-" /\ Len(chars) > 1 /\ AllDigits(Tail(chars))
         THEN JsNum(0 - ParseDigits(Tail(chars)))
    ELSE JsNaN

ToNumber(v) ==
    CASE v.t = "null" -> JsNum(0)
      [] v.t = "str" -> StringToNumber(v.s)
      [] OTHER -> v

JsToString(v) ==
    CASE v.t = "null" -> JsStr(<<"n", "u", "l", "l">>)
      [] v.t = "nan" -> JsStr(<<"N", "a", "N">>)
      [] v.t = "num" -> JsStr(NumberToString(v.n))
      [] OTHER -> v

Truthy(v) ==
    CASE v.t = "null" -> FALSE
      [] v.t = "nan" -> FALSE
      [] v.t = "num" -> v.n # 0
      [] OTHER -> v.s # <<>>

\* a > b for a number a: both sides go through ToNumber, NaN compares false
JsGreater(a, b) ==
    LET x == ToNumber(a)
        y == ToNumber(b)
    IN x.t = "num" /\ y.t = "num" /\ x.n > y.n

\* Math.floor(Math.random() * k) under the discretised random source: for a
\* value just below i/RandSteps it is ceil(i * k / RandSteps) - 1
RandomFloor(k) == {(i * k - 1) \div RandSteps : i \in 1..RandSteps}

Max(a, b) == IF a >= b THEN a ELSE b

(***************************************************************************)
(* localStorage and the high-score gateway shared by Snake, Runner and     *)
(* Whack-a-Mole.                                                           *)
(***************************************************************************)
Keys == {"snakeHighScore", "runnerHighScore", "whackHighScore"}

KeyOf(p) ==
    CASE p = "snake" -> "snakeHighScore"
      [] p = "runner" -> "runnerHighScore"
      [] OTHER -> "whackHighScore"

\* what the key may hold when the page is loaded
StoredInputs ==
    {JsNull, JsStr(<<"a", "b", "c">>)}
        \cup {JsStr(NumberToString(k)) : k \in 1..MaxStored}

\* let highScore = localStorage.getItem(key) || 0
LoadHighScore(stored) == IF Truthy(stored) THEN stored ELSE JsNum(0)

\* an update that keeps the new high score in memory only
UpdateHighScoreUnsaved(score, highScore, stored) ==
    IF ToNumber(highScore).t = "num" /\ score > ToNumber(highScore).n
    THEN [highScore |-> JsNum(score), stored |-> stored]
    ELSE [highScore |-> highScore, stored |-> stored]

\* if (score > highScore) { highScore = score; localStorage.setItem(key, highScore) }
\* result: the new highScore and the new stored value
UpdateHighScore(score, highScore, stored) ==
    IF JsGreater(JsNum(score), highScore)
    THEN [highScore |-> JsNum(score), stored |-> JsToString(JsNum(score))]
    ELSE [highScore |-> highScore, stored |-> stored]

\* history kept for the statements about sessions
BeginSession(highScore) ==
    IF "session" \in track THEN [hsBefore |-> ToNumber(highScore), best |-> 0]
    ELSE session

NoteScore(score) ==
    IF "session" \in track THEN [session EXCEPT !.best = Max(@, score)] ELSE session

\* resetGame cancels the timers in `cancelled`; where late callbacks are
\* followed, their callbacks are kept
Cancelled(cancelled) == IF "late" \in track THEN stale \cup cancelled ELSE stale

(***************************************************************************)
(* Snake (part_001 lines 1-243).                                           *)
(***************************************************************************)
Directions == {"up", "down", "left", "right"}

KeyNames == {"ArrowUp", "ArrowDown", "ArrowLeft", "ArrowRight", "Enter"}

Cell(x, y) == [x |-> x, y |-> y]

\* food = {} has no coordinates: it equals no cell of the grid
NoFood == Cell(-1, -1)

StartSnake == <<Cell(10, 10), Cell(9, 10), Cell(8, 10)>>

Cells(body) == {body[i] : i \in 1..Len(body)}

\* a createFood that does not test the sampled cell against the snake
createFoodAnywhere(body) ==
    {[x |-> x, y |-> y] : x \in RandomFloor(SnakeCols), y \in RandomFloor(SnakeRows)}

\* createFood: rejection sampling; the result is any sampled cell off the snake.
\* With no such cell the loop does not end and the handler never returns.
createFood(body) ==
    {Cell(x, y) : x \in RandomFloor(SnakeCols), y \in RandomFloor(SnakeRows)} \ Cells(body)

\* a changeDirection that tests the queued direction instead of the current one
changeDirectionQueued(key, direction, newDirection) ==
    IF key = "ArrowUp" /\ newDirection # "down" THEN "up"
    ELSE IF key = "ArrowDown" /\ newDirection # "up" THEN "down"
    ELSE IF key = "ArrowLeft" /\ newDirection # "right" THEN "left"
    ELSE IF key = "ArrowRight" /\ newDirection # "left" THEN "right"
    ELSE newDirection

\* a changeDirection that keeps the first direction queued since the last tick
changeDirectionFirst(key, direction, newDirection) ==
    IF newDirection # direction THEN newDirection
    ELSE IF key = "ArrowUp" /\ direction # "down" THEN "up"
    ELSE IF key = "ArrowDown" /\ direction # "up" THEN "down"
    ELSE IF key = "ArrowLeft" /\ direction # "right" THEN "left"
    ELSE IF key = "ArrowRight" /\ direction # "left" THEN "right"
    ELSE newDirection

\* changeDirection: the new value of newDirection
changeDirection(key, direction, newDirection) ==
    IF key = "ArrowUp" /\ direction # "down" THEN "up"
    ELSE IF key = "ArrowDown" /\ direction # "up" THEN "down"
    ELSE IF key = "ArrowLeft" /\ direction # "right" THEN "left"
    ELSE IF key = "ArrowRight" /\ direction # "left" THEN "right"
    ELSE newDirection

Inverse(direction) ==
    CASE direction = "up" -> "down"
      [] direction = "down" -> "up"
      [] direction = "left" -> "right"
      [] OTHER -> "left"

KeyDirection(key) ==
    CASE key = "ArrowUp" -> "up"
      [] key = "ArrowDown" -> "down"
      [] key = "ArrowLeft" -> "left"
      [] key = "ArrowRight" -> "right"
      [] OTHER -> "none"

\* an arrow key that does not ask for the inverse of the current direction
IsTurnKey(key, direction) ==
    KeyDirection(key) # "none" /\ KeyDirection(key) # Inverse(direction)

NoKeys == [first |-> "none", last |-> "none"]

\* the switch of gameUpdate: the new head
MoveHead(head, direction) ==
    CASE direction = "up" -> Cell(head.x, head.y - 1)
      [] direction = "down" -> Cell(head.x, head.y + 1)
      [] direction = "left" -> Cell(head.x - 1, head.y)
      [] OTHER -> Cell(head.x + 1, head.y)

\* a wall test that lets the head onto the first cell past the right and bottom edges
HitsWallOffByOne(head) ==
    head.x < 0 \/ head.x > SnakeCols \/ head.y < 0 \/ head.y > SnakeRows

HitsWall(head) ==
    head.x < 0 \/ head.x >= SnakeCols \/ head.y < 0 \/ head.y >= SnakeRows

\* a checkCollision without the loop over the segments
HitsSelfNever(head, body) == FALSE

\* the loop of checkCollision: i = 1 .. snake.length - 1 (0-based), on the
\* snake as it is before the move
HitsSelf(head, body) == \E i \in 2..Len(body) : body[i] = head

checkCollision(head, body) == HitsWall(head) \/ HitsSelf(head, body)

\* a meal after which the tail is removed all the same
GrowPopping(head, body) == <<head>> \o SubSeq(body, 1, Len(body) - 1)

\* snake.unshift(head) on a tick that eats: the tail stays
Grow(head, body) == <<head>> \o body

\* snake.unshift(head); snake.pop() on a tick that does not eat
Advance(head, body) == <<head>> \o SubSeq(body, 1, Len(body) - 1)

\* `leaked` counts the intervals whose handle was overwritten while they ran;
\* `ticks` counts the ticks of the session, on the "coil" track those since the
\* last meal (it bounds the model)
SnakeInit ==
    [snake |-> <<>>, food |-> NoFood, direction |-> "right", newDirection |-> "right",
     gameRunning |-> FALSE, score |-> 0, highScore |-> JsNum(0),
     gameLoop |-> FALSE, leaked |-> 0, ticks |-> 0]

\* a startGame without its test of gameRunning
SnakeStartUnguarded == TRUE

\* startGame returns at once while a session runs
SnakeStartGuard == ~sn.gameRunning

SnakeStart ==
    /\ page = "snake"
    /\ IF ~SnakeStartGuard
       THEN UNCHANGED vars
       ELSE /\ \E f \in createFood(StartSnake) :
                 sn' = [sn EXCEPT !.snake = StartSnake, !.food = f, !.score = 0,
                                  !.direction = "right", !.newDirection = "right",
                                  !.gameRunning = TRUE, !.gameLoop = TRUE,
                                  !.leaked = @ + (IF sn.gameLoop THEN 1 ELSE 0),
                                  !.ticks = 0]
            /\ session' = BeginSession(sn.highScore)
            /\ keys' = NoKeys
            /\ UNCHANGED <<stale, storage>>
            /\ UNCHANGED NotSnake

\* resetGame
SnakeResetGame(s) == [s EXCEPT !.gameLoop = FALSE, !.gameRunning = FALSE, !.score = 0]

SnakeReset ==
    /\ page = "snake"
    /\ sn' = SnakeResetGame(sn)
    /\ stale' = Cancelled(IF sn.gameLoop THEN {"snakeTick"} ELSE {})
    /\ keys' = NoKeys
    /\ UNCHANGED <<storage, session>>
    /\ UNCHANGED NotSnake

\* the arrow keys accepted since the last tick, where that history is kept
NoteKey(key) ==
    IF "keys" \in track /\ sn.gameRunning /\ IsTurnKey(key, sn.direction)
    THEN [first |-> IF keys.first = "none" THEN KeyDirection(key) ELSE keys.first,
          last |-> KeyDirection(key)]
    ELSE keys

\* keydown
SnakeKey ==
    /\ page = "snake"
    /\ \E key \in KeyNames :
         /\ sn' = [sn EXCEPT !.newDirection = changeDirection(key, sn.direction, @)]
         /\ keys' = NoteKey(key)
    /\ UNCHANGED <<stale, storage, session>>
    /\ UNCHANGED NotSnake

\* the bounds of a Snake session: on the "coil" track the snake may grow
\* long enough to reach its own body, and `ticks` counts from the last meal
ScoreCap ==
    IF "coil" \in track THEN MaxCoilScore
    ELSE IF "feast" \in track THEN SnakeCols * SnakeRows
    ELSE MaxSnakeScore

TickCap == IF "coil" \in track THEN MaxCoilTicks ELSE MaxSnakeTicks

\* a gameOver that also clears the score
SnakeGameOverClearing(s) ==
    [s EXCEPT !.gameLoop = FALSE, !.gameRunning = FALSE, !.score = 0]

\* gameOver
SnakeGameOver(s) == [s EXCEPT !.gameLoop = FALSE, !.gameRunning = FALSE]

\* the body of gameUpdate, applied to the Snake record s
SnakeGameUpdate(s) ==
    LET dir == s.newDirection
        head == MoveHead(s.snake[1], dir)
        moved == [s EXCEPT !.direction = dir, !.ticks = @ + 1]
    IN IF checkCollision(head, s.snake)
       THEN /\ sn' = SnakeGameOver(moved)
            /\ UNCHANGED <<storage, session>>
       ELSE IF head = s.food
       THEN LET grown == Grow(head, s.snake)
                upd == UpdateHighScore(s.score + 1, s.highScore, storage["snakeHighScore"])
            IN /\ s.score < ScoreCap
               /\ \E f \in createFood(grown) :
                    sn' = [moved EXCEPT !.snake = grown, !.score = s.score + 1,
                                        !.highScore = upd.highScore, !.food = f,
                                        !.ticks = IF "coil" \in track THEN 0 ELSE @]
               /\ storage' = [storage EXCEPT !["snakeHighScore"] = upd.stored]
               /\ session' = NoteScore(s.score + 1)
       ELSE /\ sn' = [moved EXCEPT !.snake = Advance(head, s.snake)]
            /\ UNCHANGED <<storage, session>>

\* the interval timer fires
SnakeTick ==
    /\ page = "snake"
    /\ sn.gameLoop
    /\ sn.ticks < TickCap
    /\ SnakeGameUpdate(sn)
    /\ keys' = NoKeys
    /\ UNCHANGED stale
    /\ UNCHANGED NotSnake

\* the tick on which the snake eats the food on the last free cell: no sample
\* of createFood is off the snake, its loop never ends, and the page, whose
\* only thread is in that loop, runs no handler any more
SnakeFreeze ==
    /\ page = "snake"
    /\ sn.gameLoop
    /\ sn.ticks < TickCap
    /\ LET head == MoveHead(sn.snake[1], sn.newDirection)
           grown == Grow(head, sn.snake)
           upd == UpdateHighScore(sn.score + 1, sn.highScore, storage["snakeHighScore"])
       IN /\ ~checkCollision(head, sn.snake)
          /\ head = sn.food
          /\ createFood(grown) = {}
          /\ \E f \in {Cell(x, y) : x \in RandomFloor(SnakeCols), y \in RandomFloor(SnakeRows)} :
               sn' = [sn EXCEPT !.direction = sn.newDirection, !.ticks = @ + 1,
                                !.snake = grown, !.score = @ + 1,
                                !.highScore = upd.highScore, !.food = f]
          /\ storage' = [storage EXCEPT !["snakeHighScore"] = upd.stored]
          /\ session' = NoteScore(sn.score + 1)
    /\ page' = "frozen"
    /\ keys' = NoKeys
    /\ UNCHANGED <<track, stale, rn, wh, tab2, mem, pz, tt>>

(***************************************************************************)
(* Endless Runner (js/runner.js).  Lengths and speeds are in tenths of a   *)
(* pixel, so that gravity 0.8 and the speed step 0.5 are integers.  The    *)
(* clouds are decoration: no rule reads them, and they are left out.       *)
(***************************************************************************)
PlayerX == 500
PlayerWidth == 400
PlayerHeight == 500
JumpHeight == 150
Gravity == 8
ObstacleWidth == 200
StartSpeed == 50
StartSpawnRate == 100
MinSpawnRate == 60

\* ground = canvas.height - 50
Ground == (RunnerCanvasH - 50) * 10

Obstacle(height) ==
    [x |-> RunnerCanvasW * 10, y |-> Ground - height, width |-> ObstacleWidth,
     height |-> height]

\* createObstacle: the possible new obstacles, heights floor(random * 30) + 20
createObstacle == {Obstacle((h + 20) * 10) : h \in RandomFloor(30)}

RemoveAt(seq, i) == SubSeq(seq, 1, i - 1) \o SubSeq(seq, i + 1, Len(seq))

RECURSIVE updateObstaclesFrom(_, _, _)
\* the loop of updateObstacles from (1-based) index i on
updateObstaclesFrom(obs, i, speed) ==
    IF i > Len(obs) THEN obs
    ELSE LET m == [obs[i] EXCEPT !.x = @ - speed]
         IN IF m.x + m.width < 0
            THEN updateObstaclesFrom(RemoveAt(obs, i), i, speed)
            ELSE updateObstaclesFrom([obs EXCEPT ![i] = m], i + 1, speed)

\* an updateObstacles that moves the obstacles and removes none
updateObstaclesKeeping(obs, speed) ==
    [i \in 1..Len(obs) |-> [obs[i] EXCEPT !.x = @ - speed]]

updateObstacles(obs, speed) == updateObstaclesFrom(obs, 1, speed)

\* a landing that leaves the player where the fall has taken it
updatePlayerUnclamped(pl) ==
    IF pl.jumping
    THEN LET v == pl.jumpVelocity + Gravity
             y == pl.y + v
         IN IF y >= Ground - PlayerHeight
            THEN [y |-> y, jumping |-> FALSE, jumpVelocity |-> 0]
            ELSE [y |-> y, jumping |-> TRUE, jumpVelocity |-> v]
    ELSE pl

\* updatePlayer
updatePlayer(pl) ==
    IF pl.jumping
    THEN LET v == pl.jumpVelocity + Gravity
             y == pl.y + v
         IN IF y >= Ground - PlayerHeight
            THEN [y |-> Ground - PlayerHeight, jumping |-> FALSE, jumpVelocity |-> 0]
            ELSE [y |-> y, jumping |-> TRUE, jumpVelocity |-> v]
    ELSE pl

\* jump
jump(pl) ==
    IF ~pl.jumping THEN [pl EXCEPT !.jumping = TRUE, !.jumpVelocity = 0 - JumpHeight]
    ELSE pl

\* a box test that also counts boxes that only touch
OverlapsTouching(pl, o) ==
    /\ PlayerX <= o.x + o.width
    /\ PlayerX + PlayerWidth >= o.x
    /\ pl.y <= o.y + o.height
    /\ pl.y + PlayerHeight >= o.y

Overlaps(pl, o) ==
    /\ PlayerX < o.x + o.width
    /\ PlayerX + PlayerWidth > o.x
    /\ pl.y < o.y + o.height
    /\ pl.y + PlayerHeight > o.y

\* checkCollisions: some obstacle overlaps the player
checkCollisions(pl, obs) == \E i \in 1..Len(obs) : Overlaps(pl, obs[i])

RunnerInit ==
    [player |-> [y |-> Ground - PlayerHeight, jumping |-> FALSE, jumpVelocity |-> 0],
     obstacles |-> <<>>, score |-> 0, highScore |-> JsNum(0), gameRunning |-> FALSE,
     gameLoop |-> FALSE, leaked |-> 0, gameSpeed |-> StartSpeed,
     spawnRate |-> StartSpawnRate, frameCount |-> 0]

RunnerStartGuard == ~rn.gameRunning

RunnerStart ==
    /\ page = "runner"
    /\ IF ~RunnerStartGuard
       THEN UNCHANGED <<rn, session>>
       ELSE /\ rn' = [rn EXCEPT
                        !.player = [y |-> Ground - PlayerHeight, jumping |-> FALSE,
                                    jumpVelocity |-> 0],
                        !.obstacles = <<>>, !.score = 0, !.gameSpeed = StartSpeed,
                        !.frameCount = 0, !.gameRunning = TRUE, !.gameLoop = TRUE,
                        !.leaked = @ + (IF rn.gameLoop THEN 1 ELSE 0)]
            /\ session' = BeginSession(rn.highScore)
    /\ UNCHANGED <<stale, storage>>
    /\ UNCHANGED NotRunner

RunnerResetGame(r) == [r EXCEPT !.gameLoop = FALSE, !.gameRunning = FALSE, !.score = 0]

RunnerReset ==
    /\ page = "runner"
    /\ rn' = RunnerResetGame(rn)
    /\ stale' = Cancelled(IF rn.gameLoop THEN {"runnerTick"} ELSE {})
    /\ UNCHANGED <<storage, session>>
    /\ UNCHANGED NotRunner

\* keydown: Space jumps while the game runs
RunnerKey ==
    /\ page = "runner"
    /\ \E code \in {"Space", "Enter"} :
         rn' = IF code = "Space" /\ rn.gameRunning
               THEN [rn EXCEPT !.player = jump(@)]
               ELSE rn
    /\ UNCHANGED <<stale, storage, session>>
    /\ UNCHANGED NotRunner

RunnerGameOver(r) == [r EXCEPT !.gameLoop = FALSE, !.gameRunning = FALSE]

\* a spawn that shortens the spawn rate without looking at it
nextSpawnRateUnfloored(rate) == rate - 5

\* the spawn rate after a spawn: 5 frames less while it is above the minimum
nextSpawnRate(rate) == IF rate > MinSpawnRate THEN rate - 5 ELSE rate

\* the body of gameUpdate, applied to the Runner record r
RunnerGameUpdate(r) ==
    LET pl == updatePlayer(r.player)
        obs == updateObstacles(r.obstacles, r.gameSpeed)
        frame == r.frameCount + 1
        scored == frame % 10 = 0
        score == IF scored THEN r.score + 1 ELSE r.score
        upd == IF scored
               THEN UpdateHighScore(score, r.highScore, storage["runnerHighScore"])
               ELSE [highScore |-> r.highScore, stored |-> storage["runnerHighScore"]]
        speed == IF frame % 500 = 0 THEN r.gameSpeed + 5 ELSE r.gameSpeed
        spawn == frame % r.spawnRate = 0
        rate == IF spawn THEN nextSpawnRate(r.spawnRate) ELSE r.spawnRate
    IN /\ \E o \in (IF spawn THEN createObstacle ELSE {Obstacle(0)}) :
            LET all == IF spawn THEN Append(obs, o) ELSE obs
                upd1 == [r EXCEPT !.player = pl, !.obstacles = all, !.frameCount = frame,
                                  !.score = score, !.highScore = upd.highScore,
                                  !.gameSpeed = speed, !.spawnRate = rate]
            IN rn' = IF checkCollisions(pl, all) THEN RunnerGameOver(upd1) ELSE upd1
       /\ storage' = [storage EXCEPT !["runnerHighScore"] = upd.stored]
       /\ session' = IF scored THEN NoteScore(score) ELSE session

\* the number of frames that are followed of one session (it bounds the model)
FrameCap == IF "long" \in track THEN MaxLongFrames ELSE MaxFrames

RunnerTick ==
    /\ page = "runner"
    /\ rn.gameLoop
    /\ rn.frameCount < FrameCap
    /\ RunnerGameUpdate(rn)
    /\ UNCHANGED stale
    /\ UNCHANGED NotRunner


(***************************************************************************)
(* Whack-a-Mole (js/whack-a-mole.js).                                      *)
(***************************************************************************)
NumMoles == 9
GameSeconds == 30

MoleIds == 0..(NumMoles - 1)

WhackInit ==
    [score |-> 0, timeLeft |-> GameSeconds, gameRunning |-> FALSE,
     gameTimer |-> FALSE, moleTimer |-> FALSE, leaked |-> 0,
     highScore |-> JsNum(0), active |-> {}, whacked |-> {}]

\* resetGame
WhackResetGame(w) ==
    [w EXCEPT !.gameTimer = FALSE, !.moleTimer = FALSE, !.score = 0,
              !.timeLeft = GameSeconds, !.gameRunning = FALSE,
              !.active = {}, !.whacked = {}]

\* a showRandomMole that does not hide the moles shown before
showRandomMoleKeeping(w, i) ==
    [w EXCEPT !.active = @ \cup {i}, !.moleTimer = TRUE,
              !.leaked = @ + (IF w.moleTimer THEN 1 ELSE 0)]

\* showRandomMole with randomIndex = i: one mole shown, a new timeout pending
showRandomMole(w, i) ==
    [w EXCEPT !.active = {i}, !.whacked = {}, !.moleTimer = TRUE,
              !.leaked = @ + (IF w.moleTimer THEN 1 ELSE 0)]

\* endGame
endGame(w) == [w EXCEPT !.gameTimer = FALSE, !.moleTimer = FALSE, !.gameRunning = FALSE]

WhackStartGuard == ~wh.gameRunning

WhackStart ==
    /\ page = "whack"
    /\ IF ~WhackStartGuard
       THEN UNCHANGED <<wh, session>>
       ELSE /\ \E i \in MoleIds :
                 LET w == WhackResetGame(wh)
                     timed == [w EXCEPT !.gameRunning = TRUE, !.gameTimer = TRUE,
                                        !.leaked = @ + (IF w.gameTimer THEN 1 ELSE 0)]
                 IN wh' = showRandomMole(timed, i)
            /\ session' = BeginSession(wh.highScore)
    /\ UNCHANGED <<stale, storage>>
    /\ UNCHANGED NotWhack

WhackReset ==
    /\ page = "whack"
    /\ wh' = WhackResetGame(wh)
    /\ stale' = Cancelled((IF wh.gameTimer THEN {"countdown"} ELSE {})
                              \cup (IF wh.moleTimer THEN {"moleTimeout"} ELSE {}))
    /\ UNCHANGED <<storage, session>>
    /\ UNCHANGED NotWhack

\* a countdown that ends the game only when timeLeft has passed 0
WhackCountdownBodyLate(w) ==
    LET t == [w EXCEPT !.timeLeft = @ - 1]
    IN IF t.timeLeft < 0 THEN endGame(t) ELSE t

\* the callback of the countdown interval, applied to the record w
WhackCountdownBody(w) ==
    LET t == [w EXCEPT !.timeLeft = @ - 1]
    IN IF t.timeLeft <= 0 THEN endGame(t) ELSE t

WhackCountdown ==
    /\ page = "whack"
    /\ wh.gameTimer
    /\ wh' = WhackCountdownBody(wh)
    /\ UNCHANGED <<stale, storage, session>>
    /\ UNCHANGED NotWhack

\* the callback of the mole timeout: shows the next mole only while running
MoleTimeoutBody(w, i) == IF w.gameRunning THEN showRandomMole(w, i) ELSE w

\* the mole timeout expires: it is no longer pending when its callback runs
WhackMoleExpire ==
    /\ page = "whack"
    /\ wh.moleTimer
    /\ \E i \in MoleIds : wh' = MoleTimeoutBody([wh EXCEPT !.moleTimer = FALSE], i)
    /\ UNCHANGED <<stale, storage, session>>
    /\ UNCHANGED NotWhack

\* a test of the click handler that lets a whacked mole be hit again
CanWhackAgain(w, i) == w.gameRunning /\ (i \in w.active \/ i \in w.whacked)

\* the click handler's test before whackMole
CanWhack(w, i) == w.gameRunning /\ i \in w.active /\ i \notin w.whacked

\* a click on mole i
WhackClick ==
    /\ page = "whack"
    /\ \E i \in MoleIds :
         IF CanWhack(wh, i)
         THEN LET upd == UpdateHighScore(wh.score + 1, wh.highScore,
                                         storage["whackHighScore"])
              IN /\ wh.score < MaxWhackScore
                 /\ wh' = [wh EXCEPT !.score = @ + 1, !.whacked = @ \cup {i},
                                     !.active = @ \ {i}, !.highScore = upd.highScore]
                 /\ storage' = [storage EXCEPT !["whackHighScore"] = upd.stored]
                 /\ session' = NoteScore(wh.score + 1)
         ELSE UNCHANGED <<wh, storage, session>>
    /\ UNCHANGED stale
    /\ UNCHANGED NotWhack

(***************************************************************************)
(* A second tab with the same game on the same origin.  Only what reaches  *)
(* localStorage is kept of it: its score and its in-memory highScore.      *)
(***************************************************************************)
Tab2Init == [open |-> FALSE, score |-> 0, highScore |-> JsNum(0)]

\* the other tab loads the page: line 21 runs there
Tab2Load ==
    /\ page = "whack"
    /\ ~tab2.open
    /\ tab2' = [open |-> TRUE, score |-> 0,
                highScore |-> LoadHighScore(storage["whackHighScore"])]
    /\ UNCHANGED storage
    /\ UNCHANGED NotTab2

\* whackMole in the other tab
Tab2Whack ==
    /\ page = "whack"
    /\ tab2.open
    /\ tab2.score < MaxWhackScore
    /\ LET upd == UpdateHighScore(tab2.score + 1, tab2.highScore, storage["whackHighScore"])
       IN /\ tab2' = [tab2 EXCEPT !.score = @ + 1, !.highScore = upd.highScore]
          /\ storage' = [storage EXCEPT !["whackHighScore"] = upd.stored]
    /\ UNCHANGED NotTab2

\* resetGame in the other tab
Tab2Reset ==
    /\ page = "whack"
    /\ tab2.open
    /\ tab2' = [tab2 EXCEPT !.score = 0]
    /\ UNCHANGED storage
    /\ UNCHANGED NotTab2

(***************************************************************************)
(* Memory Match (js/memory.js).  Cards are named by their index on the     *)
(* current board, 0 stands for null.  The unflip timeouts all have the     *)
(* same delay, so they run in the order they were set: those set before    *)
(* the last resetGame (`old`) run before those set after it (`new`).       *)
(***************************************************************************)
Icons == 1..MemIcons

CardIds == 1..(2 * MemIcons)

\* the first card that shows icon k in the arrangement d
FirstOf(d, k) == CHOOSE i \in CardIds : d[i] = k /\ \A j \in CardIds : d[j] = k => i <= j

\* the arrangement d with its icons numbered in the order in which they
\* first appear on the board
Renumbered(d) == [i \in CardIds |-> Cardinality({d[j] : j \in 1..FirstOf(d, d[i])})]

\* initDeck: the arrangements of two cards per icon.  No rule reads which
\* icon a card shows, only whether two cards show the same one, so the
\* arrangements are taken up to the names of the icons.
Decks ==
    {Renumbered(d) : d \in {a \in [CardIds -> Icons] :
        \A k \in Icons : Cardinality({i \in CardIds : a[i] = k}) = 2}}

\* buildBoard and resetTurn on a fresh deck; the pending timeouts stay
MemBoard(deck, old, new) ==
    [deck |-> deck, flipped |-> {}, shown |-> {}, listening |-> CardIds,
     firstCard |-> 0, secondCard |-> 0, lockBoard |-> FALSE, moves |-> 0,
     old |-> old, new |-> new, failed |-> FALSE]

resetTurn(m) == [m EXCEPT !.firstCard = 0, !.secondCard = 0, !.lockBoard = FALSE]

\* disableMatched
disableMatched(m) ==
    resetTurn([m EXCEPT !.listening = @ \ {m.firstCard, m.secondCard}])

\* an unflipCards that sets the timeout and leaves the board unlocked
unflipCardsUnlocked(m) == [m EXCEPT !.new = @ + 1]

\* unflipCards: lock the board and set the 1000 ms timeout
unflipCards(m) == [m EXCEPT !.lockBoard = TRUE, !.new = @ + 1]

checkForMatch(m) ==
    IF m.deck[m.firstCard] = m.deck[m.secondCard] THEN disableMatched(m)
    ELSE unflipCards(m)

\* onCardClick on card c
onCardClick(m, c) ==
    IF m.lockBoard \/ c = m.firstCard \/ c \in m.flipped THEN m
    ELSE LET up == [m EXCEPT !.flipped = @ \cup {c}, !.shown = @ \cup {c}]
         IN IF m.firstCard = 0 THEN [up EXCEPT !.firstCard = c]
            ELSE checkForMatch([up EXCEPT !.secondCard = c, !.moves = @ + 1])

\* the callback of unflipCards; a null firstCard or secondCard makes it throw
\* where it is first dereferenced, and the rest of the callback is skipped
UnflipCallback(m) ==
    IF m.firstCard = 0 THEN [m EXCEPT !.failed = TRUE]
    ELSE LET one == [m EXCEPT !.flipped = @ \ {m.firstCard}]
         IN IF m.secondCard = 0 THEN [one EXCEPT !.failed = TRUE]
            ELSE resetTurn([one EXCEPT !.flipped = @ \ {m.secondCard},
                                       !.shown = @ \ {m.firstCard, m.secondCard}])

MemClick ==
    /\ page = "memory"
    /\ \E c \in mem.listening :
         /\ (mem.firstCard # 0 /\ ~mem.lockBoard /\ c # mem.firstCard /\ c \notin mem.flipped)
                => (mem.moves < MaxMemMoves /\ mem.old + mem.new < MaxPending)
         /\ mem' = onCardClick(mem, c)
    /\ UNCHANGED NotMemory

\* the restart button
MemReset ==
    /\ page = "memory"
    /\ \E d \in Decks : mem' = MemBoard(d, mem.old + mem.new, 0)
    /\ UNCHANGED NotMemory

\* a timeout set since the last resetGame runs
MemUnflip ==
    /\ page = "memory"
    /\ mem.old = 0
    /\ mem.new > 0
    /\ mem' = UnflipCallback([mem EXCEPT !.new = @ - 1])
    /\ UNCHANGED NotMemory

\* a timeout set before the last resetGame runs
MemLateUnflip ==
    /\ page = "memory"
    /\ mem.old > 0
    /\ mem' = UnflipCallback([mem EXCEPT !.old = @ - 1])
    /\ UNCHANGED NotMemory

(***************************************************************************)
(* Image Puzzle (js/puzzle.js).  A tile's content is the image div made    *)
(* for the cell it was created in; the empty cell has no content.          *)
(***************************************************************************)
DefaultGridSize == 4

\* the values of the difficulty select
Difficulties == {3, 4, 5}

Pos(row, col) == [row |-> row, col |-> col]

Blank == Pos(-1, -1)

Positions(size) == {Pos(r, c) : r \in 0..(size - 1), c \in 0..(size - 1)}

\* createGrid for gridSize = size: every tile in its own cell, the last cell empty
createGrid(size) ==
    [grid |-> [q \in Positions(size) |->
                  IF q = Pos(size - 1, size - 1) THEN Blank ELSE q],
     emptyTile |-> Pos(size - 1, size - 1), built |-> size]

\* a getAdjacentTiles that also offers the tile above and left of the empty cell
getAdjacentTilesDiagonal(empty, size) ==
    {Pos(empty.row - 1, empty.col - 1) :
        x \in {1} \cap (IF empty.row > 0 /\ empty.col > 0 THEN {1} ELSE {})}
        \cup {Pos(empty.row - 1, empty.col) : x \in {1} \cap (IF empty.row > 0 THEN {1} ELSE {})}
        \cup {Pos(empty.row, empty.col + 1) :
                 x \in {1} \cap (IF empty.col < size - 1 THEN {1} ELSE {})}
        \cup {Pos(empty.row + 1, empty.col) :
                 x \in {1} \cap (IF empty.row < size - 1 THEN {1} ELSE {})}
        \cup {Pos(empty.row, empty.col - 1) : x \in {1} \cap (IF empty.col > 0 THEN {1} ELSE {})}

\* getAdjacentTiles
getAdjacentTiles(empty, size) ==
    {Pos(empty.row - 1, empty.col) : x \in {1} \cap (IF empty.row > 0 THEN {1} ELSE {})}
        \cup {Pos(empty.row, empty.col + 1) :
                 x \in {1} \cap (IF empty.col < size - 1 THEN {1} ELSE {})}
        \cup {Pos(empty.row + 1, empty.col) :
                 x \in {1} \cap (IF empty.row < size - 1 THEN {1} ELSE {})}
        \cup {Pos(empty.row, empty.col - 1) : x \in {1} \cap (IF empty.col > 0 THEN {1} ELSE {})}

\* a swapTiles that copies the content of (row, col) and leaves it there
swapTilesCopying(b, q) ==
    [b EXCEPT !.grid = [@ EXCEPT ![b.emptyTile] = b.grid[q]], !.emptyTile = q]

\* swapTiles: the content of (row, col) moves to the empty cell
swapTiles(b, q) ==
    [b EXCEPT !.grid = [@ EXCEPT ![b.emptyTile] = b.grid[q], ![q] = Blank],
              !.emptyTile = q]

RECURSIVE ShuffleSteps(_, _, _)
\* the boards after k more steps of the loop of shuffleGrid
ShuffleSteps(boards, size, k) ==
    IF k = 0 THEN boards
    ELSE ShuffleSteps(UNION {{swapTiles(b, q) : q \in getAdjacentTiles(b.emptyTile, size)} :
                                b \in boards}, size, k - 1)

\* shuffleGrid: gridSize * gridSize * 10 random moves in the code, an even
\* number; 2 * ShuffleHalf here
shuffleGrid(b, size) == ShuffleSteps({b}, size, 2 * ShuffleHalf)

\* a test of moveTile that also accepts the diagonal neighbours
IsAdjacentDiagonal(q, empty) ==
    /\ q # empty
    /\ q.row - empty.row \in {-1, 0, 1}
    /\ q.col - empty.col \in {-1, 0, 1}

\* the test of moveTile
IsAdjacent(q, empty) ==
    \/ (q.row = empty.row /\ (q.col - empty.col = 1 \/ empty.col - q.col = 1))
    \/ (q.col = empty.col /\ (q.row - empty.row = 1 \/ empty.row - q.row = 1))

\* backgroundPosition of the content made for cell `made` of a grid of size
\* `built` equals the one expected for cell q of a grid of size `size`:
\* col * 100 / (size - 1) and row * 100 / (size - 1) agree
SameBgPosition(made, built, q, size) ==
    /\ made.col * (size - 1) = q.col * (built - 1)
    /\ made.row * (size - 1) = q.row * (built - 1)

\* isPuzzleSolved, with the current gridSize
isPuzzleSolved(b, size) ==
    IF b.emptyTile # Pos(size - 1, size - 1) THEN FALSE
    ELSE \A q \in Positions(size) \ {Pos(size - 1, size - 1)} :
            \/ b.grid[q] = Blank
            \/ SameBgPosition(b.grid[q], b.built, q, size)

PuzzleInit ==
    [board |-> createGrid(DefaultGridSize), gridSize |-> DefaultGridSize, moves |-> 0,
     timer |-> 0, timerInterval |-> FALSE, leaked |-> 0, gameRunning |-> FALSE]

PuzzleResetGame(z) ==
    [z EXCEPT !.timerInterval = FALSE, !.moves = 0, !.timer = 0, !.gameRunning = FALSE,
              !.board = createGrid(z.gridSize)]

PuzzleStartGuard == ~pz.gameRunning

PuzzleStart ==
    /\ page = "puzzle"
    /\ IF ~PuzzleStartGuard
       THEN UNCHANGED pz
       ELSE LET z == PuzzleResetGame(pz)
            IN \E b \in shuffleGrid(createGrid(z.gridSize), z.gridSize) :
                 pz' = [z EXCEPT !.gameRunning = TRUE, !.board = b, !.timerInterval = TRUE,
                                 !.leaked = @ + (IF z.timerInterval THEN 1 ELSE 0)]
    /\ UNCHANGED NotPuzzle

PuzzleReset ==
    /\ page = "puzzle"
    /\ pz' = PuzzleResetGame(pz)
    /\ UNCHANGED NotPuzzle

\* the change handler of the difficulty select
PuzzleDifficulty ==
    /\ page = "puzzle"
    /\ \E d \in Difficulties : pz' = [pz EXCEPT !.gridSize = d]
    /\ UNCHANGED NotPuzzle

\* the timer interval fires
PuzzleTimer ==
    /\ page = "puzzle"
    /\ pz.timerInterval
    /\ pz.timer < MaxPuzzleTimer
    /\ pz' = [pz EXCEPT !.timer = @ + 1]
    /\ UNCHANGED NotPuzzle

\* gameComplete
gameComplete(z) == [z EXCEPT !.timerInterval = FALSE, !.gameRunning = FALSE]

\* moveTile(row, col)
moveTile(z, q) ==
    IF IsAdjacent(q, z.board.emptyTile)
    THEN LET moved == [z EXCEPT !.board = swapTiles(@, q), !.moves = @ + 1]
         IN IF isPuzzleSolved(moved.board, moved.gridSize) THEN gameComplete(moved)
            ELSE moved
    ELSE z

\* a click on the tile of cell q of the grid on the page
PuzzleClick ==
    /\ page = "puzzle"
    /\ \E q \in Positions(pz.board.built) :
         /\ (pz.gameRunning /\ IsAdjacent(q, pz.board.emptyTile)) => pz.moves < MaxPuzzleMoves
         /\ pz' = IF pz.gameRunning THEN moveTile(pz, q) ELSE pz
    /\ UNCHANGED NotPuzzle

(***************************************************************************)
(* Tic-Tac-Toe (part_001 lines 244-417).  No handle of the makeAIMove      *)
(* timeouts is kept, so none is ever cancelled: `pending` counts them.     *)
(* `status` is the text of the status line: its kind and the player named. *)
(***************************************************************************)
TttCells == 0..8

winPatterns ==
    {{0, 1, 2}, {3, 4, 5}, {6, 7, 8}, {0, 3, 6}, {1, 4, 7}, {2, 5, 8}, {0, 4, 8}, {2, 4, 6}}

\* a checkWin that does not look at the diagonals
checkWinStraight(b) ==
    \E pat \in winPatterns \ {{0, 4, 8}, {2, 4, 6}} :
        \E mark \in {"X", "O"} : \A i \in pat : b[i] = mark

\* checkWin: some pattern holds three equal marks
checkWin(b) == \E pat \in winPatterns : \E mark \in {"X", "O"} : \A i \in pat : b[i] = mark

\* checkDraw
checkDraw(b) == \A i \in TttCells : b[i] # ""

\* the status line
StatusLine(kind, who) == [kind |-> kind, who |-> who]

\* resetGame
TttResetGame(t) ==
    [t EXCEPT !.board = [i \in TttCells |-> ""], !.currentPlayer = "X",
              !.gameActive = TRUE, !.status = StatusLine("turn", "X")]

TttInit ==
    [board |-> [i \in TttCells |-> ""], currentPlayer |-> "X", gameActive |-> TRUE,
     status |-> StatusLine("turn", "X"), pending |-> 0]

\* the part of handleCellClick and of makeAIMove after the mark is written:
\* the record t with the board b, a win or a draw declared
Declared(t, b) ==
    IF checkWin(b)
    THEN [t EXCEPT !.board = b, !.status = StatusLine("wins", t.currentPlayer),
                   !.gameActive = FALSE]
    ELSE [t EXCEPT !.board = b, !.status = StatusLine("draw", t.currentPlayer),
                   !.gameActive = FALSE]

\* a handleCellClick that writes into a filled cell as into an empty one
handleCellClickOverwriting(t, i) ==
    IF ~t.gameActive THEN t
    ELSE LET b == [t.board EXCEPT ![i] = t.currentPlayer]
         IN IF checkWin(b) \/ checkDraw(b) THEN Declared(t, b)
            ELSE LET other == IF t.currentPlayer = "X" THEN "O" ELSE "X"
                 IN [t EXCEPT !.board = b, !.currentPlayer = other,
                              !.status = StatusLine("turn", other),
                              !.pending = @ + (IF other = "O" THEN 1 ELSE 0)]

\* handleCellClick on cell i
handleCellClick(t, i) ==
    IF t.board[i] # "" \/ ~t.gameActive THEN t
    ELSE LET b == [t.board EXCEPT ![i] = t.currentPlayer]
         IN IF checkWin(b) \/ checkDraw(b) THEN Declared(t, b)
            ELSE LET other == IF t.currentPlayer = "X" THEN "O" ELSE "X"
                 IN [t EXCEPT !.board = b, !.currentPlayer = other,
                              !.status = StatusLine("turn", other),
                              !.pending = @ + (IF other = "O" THEN 1 ELSE 0)]

\* makeAIMove with randomIndex = i, an empty cell
makeAIMove(t, i) ==
    LET b == [t.board EXCEPT ![i] = t.currentPlayer]
    IN IF checkWin(b) \/ checkDraw(b) THEN Declared(t, b)
       ELSE [t EXCEPT !.board = b, !.currentPlayer = "X",
                      !.status = StatusLine("turn", "X")]

\* a click on cell i
TttClick ==
    /\ page = "ttt"
    /\ \E i \in TttCells :
         /\ handleCellClick(tt, i).pending <= MaxAIPending
         /\ tt' = handleCellClick(tt, i)
    /\ UNCHANGED NotTtt

\* a makeAIMove timeout expires
TttAIMove ==
    /\ page = "ttt"
    /\ tt.pending > 0
    /\ LET t == [tt EXCEPT !.pending = @ - 1]
           empty == {i \in TttCells : tt.board[i] = ""}
       IN IF empty = {} THEN tt' = t
          ELSE \E i \in empty : tt' = makeAIMove(t, i)
    /\ UNCHANGED NotTtt

\* the reset button
TttReset ==
    /\ page = "ttt"
    /\ tt' = TttResetGame(tt)
    /\ UNCHANGED NotTtt

(***************************************************************************)
(* Late callbacks.  clearInterval keeps the browser from running a         *)
(* cancelled callback; these actions are the case the specification's      *)
(* cancellation test sets up: resetGame cancels a scheduled callback, and  *)
(* the callback is invoked afterwards all the same.                        *)
(***************************************************************************)
SnakeLateTick ==
    /\ page = "snake"
    /\ "snakeTick" \in stale
    /\ stale' = stale \ {"snakeTick"}
    /\ sn.ticks < TickCap
    /\ SnakeGameUpdate(sn)
    /\ keys' = NoKeys
    /\ UNCHANGED NotSnake

RunnerLateTick ==
    /\ page = "runner"
    /\ "runnerTick" \in stale
    /\ stale' = stale \ {"runnerTick"}
    /\ rn.frameCount < FrameCap
    /\ RunnerGameUpdate(rn)
    /\ UNCHANGED NotRunner

WhackLateCountdown ==
    /\ page = "whack"
    /\ "countdown" \in stale
    /\ stale' = stale \ {"countdown"}
    /\ wh' = WhackCountdownBody(wh)
    /\ UNCHANGED <<storage, session>>
    /\ UNCHANGED NotWhack

WhackLateMole ==
    /\ page = "whack"
    /\ "moleTimeout" \in stale
    /\ wh.leaked < MaxLeaked
    /\ stale' = stale \ {"moleTimeout"}
    /\ \E i \in MoleIds : wh' = MoleTimeoutBody(wh, i)
    /\ UNCHANGED <<storage, session>>
    /\ UNCHANGED NotWhack

\* a mole timeout whose handle was overwritten expires
WhackLeakedMoleExpire ==
    /\ page = "whack"
    /\ wh.leaked > 0
    /\ \E i \in MoleIds : wh' = MoleTimeoutBody([wh EXCEPT !.leaked = @ - 1], i)
    /\ UNCHANGED <<stale, storage, session>>
    /\ UNCHANGED NotWhack

Pages == {"snake", "runner", "whack", "memory", "puzzle", "ttt"}

Arcade == {"snake", "runner", "whack"}

\* the state when the page's DOMContentLoaded handler has run
InitPage(p, histories, inputs) ==
    /\ page = p
    /\ track = histories
    /\ stale = {}
    /\ keys = NoKeys
    /\ \E v \in (IF p \in Arcade THEN inputs ELSE {JsNull}) :
         /\ storage = [k \in Keys |-> IF k = KeyOf(p) THEN v ELSE JsNull]
         /\ sn = [SnakeInit EXCEPT !.highScore =
                     IF p = "snake" THEN LoadHighScore(v) ELSE JsNum(0)]
         /\ rn = [RunnerInit EXCEPT !.highScore =
                     IF p = "runner" THEN LoadHighScore(v) ELSE JsNum(0)]
         /\ wh = [WhackInit EXCEPT !.highScore =
                     IF p = "whack" THEN LoadHighScore(v) ELSE JsNum(0)]
    /\ session = [hsBefore |-> JsNum(0), best |-> 0]
    /\ tab2 = Tab2Init
    /\ \E d \in (IF p = "memory" THEN Decks ELSE {[i \in CardIds |-> 1]}) :
         mem = MemBoard(d, 0, 0)
    /\ pz = PuzzleInit
    /\ tt = TttInit

NextSnake == SnakeStart \/ SnakeReset \/ SnakeKey \/ SnakeTick

NextRunner == RunnerStart \/ RunnerReset \/ RunnerKey \/ RunnerTick

NextWhack == WhackStart \/ WhackReset \/ WhackCountdown \/ WhackMoleExpire \/ WhackClick

NextArcade == NextSnake \/ NextRunner \/ NextWhack

NextLate == SnakeLateTick \/ RunnerLateTick \/ WhackLateCountdown \/ WhackLateMole
                \/ WhackLeakedMoleExpire

NextTab2 == Tab2Load \/ Tab2Whack \/ Tab2Reset

NextMemory == MemClick \/ MemReset \/ MemUnflip \/ MemLateUnflip

NextPuzzle == PuzzleStart \/ PuzzleReset \/ PuzzleDifficulty \/ PuzzleTimer \/ PuzzleClick

NextTtt == TttClick \/ TttAIMove \/ TttReset

Next == NextArcade \/ NextMemory \/ NextPuzzle \/ NextTtt

\* one page instance of any of the games
Init == \E p \in Pages : InitPage(p, {}, StoredInputs)

Spec == Init /\ [][Next]_vars

\* one page instance of Snake, Runner or Whack-a-Mole, the sessions' history kept
InitScores == \E p \in Arcade : InitPage(p, {"session"}, StoredInputs)

SpecScores == InitScores /\ [][NextArcade]_vars

\* one page instance of Snake, Runner or Whack-a-Mole on a browser without a
\* stored high score; the callbacks cancelled by resetGame may run
InitLate == \E p \in Arcade : InitPage(p, {"late"}, {JsNull})

SpecLate == InitLate /\ [][NextArcade \/ NextLate]_vars

InitSnake == InitPage("snake", {}, StoredInputs)

SpecSnake == InitSnake /\ [][NextSnake]_vars

\* Snake sessions that are played to their end and started again, followed
\* until the snake is long enough to reach its own body
InitCoil == InitPage("snake", {"coil"}, {JsNull})

NextCoil == SnakeStart \/ SnakeKey \/ SnakeTick

SpecCoil == InitCoil /\ [][NextCoil]_vars

\* the i-th cell (from 0) of the path that runs through the rows of the grid
\* from the top, turning at the row ends, and ends in the bottom right cell
SerpentineCell(i) ==
    LET row == i \div SnakeCols
        off == i % SnakeCols
    IN Cell(IF (SnakeRows - 1 - row) % 2 = 0 THEN off ELSE SnakeCols - 1 - off, row)

\* a snake of k segments that lies on the path, its tail on the first cell
FeastSnake(k) == [j \in 1..k |-> SerpentineCell(k - j)]

\* the direction of the step from cell a to the neighbouring cell b
StepDirection(a, b) ==
    IF b.y > a.y THEN "down" ELSE IF b.x > a.x THEN "right" ELSE "left"

\* a running Snake session late in a long game: the snake fills the grid but
\* for at most MaxFreeCells cells, the food is on the cell before its head or
\* on a sampled free cell, and the high score is the score
InitFeast ==
    /\ page = "snake"
    /\ track = {"feast"}
    /\ stale = {}
    /\ keys = NoKeys
    /\ \E k \in (SnakeCols * SnakeRows - MaxFreeCells)..(SnakeCols * SnakeRows - 1) :
         LET body == FeastSnake(k)
             going == StepDirection(body[2], body[1])
         IN /\ \E f \in {SerpentineCell(k)} \cup createFood(body) :
                 sn = [SnakeInit EXCEPT !.snake = body, !.food = f, !.direction = going,
                                        !.newDirection = going, !.gameRunning = TRUE,
                                        !.gameLoop = TRUE, !.score = k - 3,
                                        !.highScore = JsNum(k - 3)]
            /\ storage = [key \in Keys |-> IF key = "snakeHighScore"
                                           THEN JsToString(JsNum(k - 3)) ELSE JsNull]
    /\ rn = RunnerInit
    /\ wh = WhackInit
    /\ session = [hsBefore |-> JsNum(0), best |-> 0]
    /\ tab2 = Tab2Init
    /\ mem = MemBoard([i \in CardIds |-> 1], 0, 0)
    /\ pz = PuzzleInit
    /\ tt = TttInit

NextFeast == SnakeKey \/ SnakeTick \/ SnakeFreeze

SpecFeast == InitFeast /\ [][NextFeast]_vars

\* Whack-a-Mole sessions that are not reset; the browser runs the callback of
\* the countdown interval every second while the interval is active
InitTimed == InitPage("whack", {}, {JsNull})

NextTimed == WhackStart \/ WhackCountdown \/ WhackMoleExpire \/ WhackClick

SpecTimed == InitTimed /\ [][NextTimed]_vars /\ WF_vars(WhackCountdown)

\* Tic-Tac-Toe alone
InitTtt == InitPage("ttt", {}, {JsNull})

SpecTtt == InitTtt /\ [][NextTtt]_vars

\* the Puzzle alone
InitPuzzle == InitPage("puzzle", {}, {JsNull})

SpecPuzzle == InitPuzzle /\ [][NextPuzzle]_vars

\* the Runner alone, on a browser without a stored high score
InitRunner == InitPage("runner", {}, {JsNull})

SpecRunner == InitRunner /\ [][NextRunner]_vars

\* the Runner alone, its sessions followed past the first rise of the speed
\* and down to the least spawn rate
InitLong == InitPage("runner", {"long"}, {JsNull})

\* sessions that are played to their end and started again
NextLong == RunnerStart \/ RunnerKey \/ RunnerTick

SpecLong == InitLong /\ [][NextLong]_vars

\* Snake on a browser without a stored high score, the accepted keys kept
InitKeys == InitPage("snake", {"keys"}, {JsNull})

SpecKeys == InitKeys /\ [][NextSnake]_vars

\* two tabs of Whack-a-Mole
InitTabs == InitPage("whack", {}, StoredInputs)

SpecTabs == InitTabs /\ [][NextWhack \/ NextTab2]_vars

InitMemory == InitPage("memory", {}, {JsNull})

SpecMemory == InitMemory /\ [][NextMemory]_vars

\* one game of Memory, played without the restart button
NextMatch == MemClick \/ MemUnflip

SpecMatch == InitMemory /\ [][NextMatch]_vars

(***************************************************************************)
(* The statements checked.                                                 *)
(***************************************************************************)
\* the record of the game this page runs (Snake, Runner or Whack-a-Mole)
Game == CASE page = "snake" -> sn [] page = "runner" -> rn [] OTHER -> wh

\* what localStorage holds under this page's key
Stored == storage[KeyOf(page)]

\* the tick and countdown callbacks that resetGame has cancelled
TickCallbacks == {"snakeTick", "runnerTick", "countdown"}

\* C1: in Snake, Runner and Whack-a-Mole a tick or countdown callback that was
\* scheduled before resetGame and is invoked after it changes no session
\* state: score, high score, positions, frame counter and time left stay.
LateCallbackIsNoOp ==
    [][(stale' \subseteq stale /\ (stale \ stale') \cap TickCallbacks # {})
          => UNCHANGED <<sn, rn, wh, storage>>]_vars

\* the timers outstanding for each game: the one its handle names and the
\* ones whose handle was overwritten
SnakeTimers == (IF sn.gameLoop THEN 1 ELSE 0) + sn.leaked

RunnerTimers == (IF rn.gameLoop THEN 1 ELSE 0) + rn.leaked

WhackIntervals == (IF wh.gameTimer THEN 1 ELSE 0)

WhackTimers == WhackIntervals + (IF wh.moleTimer THEN 1 ELSE 0) + wh.leaked

PuzzleTimers == (IF pz.timerInterval THEN 1 ELSE 0) + pz.leaked

OneTimerPerGame ==
    /\ SnakeTimers <= 1 /\ RunnerTimers <= 1 /\ PuzzleTimers <= 1
    /\ wh.leaked = 0
    /\ ~sn.gameRunning => SnakeTimers = 0
    /\ ~rn.gameRunning => RunnerTimers = 0
    /\ ~wh.gameRunning => WhackTimers = 0
    /\ ~pz.gameRunning => PuzzleTimers = 0

\* C2: in Snake, Runner, Whack-a-Mole and Puzzle startGame while the session
\* runs changes nothing; at most one interval timer (and in Whack-a-Mole at
\* most one mole timeout) is outstanding per game, and none while the running
\* flag is false.
StartWhileRunningIsNoOp ==
    /\ []OneTimerPerGame
    /\ [][/\ (sn.gameRunning /\ SnakeStart) => UNCHANGED vars
          /\ (rn.gameRunning /\ RunnerStart) => UNCHANGED vars
          /\ (wh.gameRunning /\ WhackStart) => UNCHANGED vars
          /\ (pz.gameRunning /\ PuzzleStart) => UNCHANGED vars]_vars

\* a Whack-a-Mole session with both of its timers outstanding and a mole hit
OneTimerWitness ==
    wh.gameRunning /\ wh.gameTimer /\ wh.moleTimer /\ wh.score > 0 /\ WhackTimers = 2

\* C3: resetGame of Memory while a mismatch revert is pending: when the
\* 1000 ms callback fires afterwards it changes no card of the new board, not
\* firstCard, secondCard or lockBoard, and it does not fail.
LateRevertIsNoOp ==
    [][mem'.old < mem.old
          => /\ mem'.flipped = mem.flipped /\ mem'.shown = mem.shown
             /\ mem'.firstCard = mem.firstCard /\ mem'.secondCard = mem.secondCard
             /\ mem'.lockBoard = mem.lockBoard
             /\ ~mem'.failed]_vars

\* C4: in Snake, Runner and Whack-a-Mole the score never decreases within a
\* session: only resetGame or a startGame that begins a session lowers it.
ScoreNeverDecreases ==
    [][/\ sn'.score < sn.score => (SnakeReset \/ SnakeStart)
       /\ rn'.score < rn.score => (RunnerReset \/ RunnerStart)
       /\ wh'.score < wh.score => (WhackReset \/ WhackStart)]_vars

\* a session that has scored and then ended by game over or timeout
ScoreKeptWitness == page \in Arcade /\ ~Game.gameRunning /\ Game.score > 0

\* the step ends the session: game over, timeout or resetGame
SessionEnds == Game.gameRunning /\ ~Game'.gameRunning

\* the high score a page would load from what is stored
Persisted(stored) == ToNumber(LoadHighScore(stored))

\* C5: one page instance, the stored high score absent or a decimal integer:
\* when a Snake, Runner or Whack-a-Mole session ends (game over, timeout or
\* reset) the high score, in memory and as persisted, is the greater of the
\* high score before the session and the highest score reached in it.
HighScoreIsMax ==
    [][(SessionEnds /\ session.hsBefore.t = "num")
          => /\ ToNumber(Game'.highScore) = JsNum(Max(session.hsBefore.n, session'.best))
             /\ Persisted(Stored') = JsNum(Max(session.hsBefore.n, session'.best))]_vars

\* an ended session that has beaten the high score it began with
HighScoreBeatenWitness ==
    /\ page \in Arcade /\ ~Game.gameRunning
    /\ session.hsBefore.t = "num" /\ session.hsBefore.n > 0
    /\ session.best > session.hsBefore.n

\* C6: the persisted high score is written only when the score exceeds the
\* value stored at that moment, so the stored value never decreases, also
\* when two tabs that loaded the key at different times interleave writes.
StoredNeverDecreases ==
    [][/\ Stored' # Stored => JsGreater(Stored', Stored)
       /\ ~JsGreater(Stored, Stored')]_vars

\* a stored value that is absent or not a decimal integer
Malformed(stored) == stored = JsNull \/ ToNumber(stored).t # "num"

\* C7: loading a high score yields 0 when the stored value is absent or
\* malformed, so that the first score increase of a session still updates
\* and persists the high score.
MalformedLoadsAsZero ==
    [][(page \in Arcade /\ Malformed(Stored) /\ Game.score = 0 /\ Game'.score > 0)
          => /\ Game'.highScore = JsNum(Game'.score)
             /\ Stored' = JsToString(JsNum(Game'.score))]_vars

\* C8: in a running Snake session the direction applied at a tick is never
\* the inverse of the direction applied at the tick before, whatever keys
\* were pressed in between; a reversal key leaves the queued direction as it is.
NeverReverses ==
    /\ [](\A key \in KeyNames :
            KeyDirection(key) = Inverse(sn.direction)
                => changeDirection(key, sn.direction, sn.newDirection) = sn.newDirection)
    /\ [][sn.gameRunning => sn'.direction # Inverse(sn.direction)]_vars

\* a running snake that has turned twice and has another turn queued
TurnedWitness ==
    sn.gameRunning /\ sn.direction = "left" /\ sn.newDirection # sn.direction

\* the step is a tick of a running session after at least one accepted key
TickAfterKeys == sn.gameRunning /\ keys.first # "none" /\ SnakeTick

\* C9: several direction keys between two ticks of Snake: only the first
\* pressed direction that is not the inverse of the current direction takes
\* effect at the next tick.
FirstKeyWins == [][TickAfterKeys => sn'.direction = keys.first]_vars

\* C9 as amended: the last pressed direction that is not the inverse of the
\* current direction takes effect at the next tick.
LastKeyWins == [][TickAfterKeys => sn'.direction = keys.last]_vars

\* two different directions accepted since the last tick, the later one applied
\* by the tick that follows
TwoKeysWitness ==
    sn.gameRunning /\ keys.first # "none" /\ keys.last # keys.first
        /\ sn.newDirection = keys.last

\* the snake as it is after the move of a tick that hits no wall
SnakeAfterMove ==
    LET head == MoveHead(sn.snake[1], sn.newDirection)
    IN IF head = sn.food THEN <<head>> \o sn.snake
       ELSE <<head>> \o SubSeq(sn.snake, 1, Len(sn.snake) - 1)

\* C10: a Snake tick ends the session for self-collision exactly when, after
\* the move of that tick, the head's cell is the cell of another segment; the
\* cell the tail leaves in that tick does not count.
SelfCollisionAfterMove ==
    [][(sn.gameRunning /\ SnakeTick /\ ~HitsWall(MoveHead(sn.snake[1], sn.newDirection)))
          => (~sn'.gameRunning <=> HitsSelf(SnakeAfterMove[1], SnakeAfterMove))]_vars

\* the cell the head moves to at the next tick
NextHead == MoveHead(sn.snake[1], sn.newDirection)

\* the step is a tick of a running Snake session
RunningTick == sn.gameRunning /\ SnakeTick

\* C11: in every reachable state of a Snake session the segments of the snake
\* occupy pairwise distinct cells; in particular the head is on no other segment.
SegmentsDistinct ==
    \A i \in 1..Len(sn.snake) : \A j \in 1..Len(sn.snake) :
        i # j => sn.snake[i] # sn.snake[j]

\* a session that checkCollision ended because the head was about to enter a
\* cell that a segment would still occupy after the move
SelfCollisionWitness ==
    /\ ~sn.gameRunning /\ Len(sn.snake) >= 5
    /\ \E i \in 2..(Len(sn.snake) - 1) : sn.snake[i] = MoveHead(sn.snake[1], sn.direction)

\* the cell is one of the SnakeCols x SnakeRows cells of the canvas
InsideGrid(c) == c.x \in 0..(SnakeCols - 1) /\ c.y \in 0..(SnakeRows - 1)

\* every segment is a cell of the grid
SnakeInGrid == \A i \in 1..Len(sn.snake) : InsideGrid(sn.snake[i])

\* C12: all segments of the snake lie inside the grid in every reachable
\* state; a tick whose new head would be outside the grid ends the session
\* (running flag false, interval cleared) and leaves snake, food and score.
WallEndsSession ==
    /\ []SnakeInGrid
    /\ [][(RunningTick /\ ~InsideGrid(NextHead))
             => /\ ~sn'.gameRunning /\ ~sn'.gameLoop
                /\ sn'.snake = sn.snake /\ sn'.food = sn.food
                /\ sn'.score = sn.score]_vars

\* a session that ended at a wall after the snake has eaten
WallWitness ==
    /\ ~sn.gameRunning /\ Len(sn.snake) > 3 /\ sn.score > 0
    /\ ~InsideGrid(MoveHead(sn.snake[1], sn.direction))

\* C13: after startGame and after every tick of a running Snake session the
\* food is a cell of the grid that no segment of the snake occupies.
FoodOffSnake ==
    sn.snake # <<>> => (InsideGrid(sn.food) /\ sn.food \notin Cells(sn.snake))

\* the food was placed again after a meal and the snake has moved on since
FoodRelocatedWitness == sn.gameRunning /\ sn.score > 0 /\ sn.ticks > 1

\* C14: in a running Snake session the length of the snake is 3 plus the
\* score: a tick on which the head reaches the food adds one to score and
\* length and keeps the tail; every other tick that does not end the session
\* leaves both as they are.
LengthIsScorePlus3 ==
    /\ [](sn.gameRunning => Len(sn.snake) = 3 + sn.score)
    /\ [][(RunningTick /\ sn'.gameRunning)
             => IF NextHead = sn.food
                THEN /\ sn'.score = sn.score + 1
                     /\ sn'.snake = <<NextHead>> \o sn.snake
                ELSE /\ sn'.score = sn.score
                     /\ Len(sn'.snake) = Len(sn.snake)]_vars

\* a running snake that has eaten twice
GrownWitness == sn.gameRunning /\ sn.score = 2 /\ Len(sn.snake) = 5

\* C15 as stated: while a Whack-a-Mole session is running, exactly one mole
\* is active at every moment.
ExactlyOneActive == wh.gameRunning => Cardinality(wh.active) = 1

\* C15: while a Whack-a-Mole session is running exactly one mole is shown,
\* either active or whacked, so at most one mole is active: a click on the
\* active mole makes it whacked and no mole is active until the mole timer
\* expires and shows the next one.
OneMoleShown ==
    wh.gameRunning =>
        /\ Cardinality(wh.active \cup wh.whacked) = 1
        /\ wh.active \cap wh.whacked = {}

\* the shown mole has been hit and its timeout has not expired yet
WhackedWitness ==
    wh.gameRunning /\ wh.active = {} /\ wh.whacked # {} /\ wh.moleTimer

\* the y of a player that stands on the ground
OnGround == Ground - PlayerHeight

\* the step is a tick of the Runner's interval
RunnerFrame == rn.gameLoop /\ RunnerTick

\* C16: the player of the Runner is never below the ground line, and a player
\* that is not jumping stands on the ground with vertical velocity 0; while
\* jumping each tick adds gravity to the velocity and then the velocity to
\* the position, and a player that reaches the ground lands on it.
PlayerOnOrAboveGround ==
    /\ [](/\ rn.player.y <= OnGround
          /\ ~rn.player.jumping => (rn.player.y = OnGround /\ rn.player.jumpVelocity = 0))
    /\ [][(RunnerFrame /\ rn.player.jumping)
             => LET v == rn.player.jumpVelocity + Gravity
                    y == rn.player.y + v
                IN IF y >= OnGround
                   THEN ~rn'.player.jumping /\ rn'.player.y = OnGround
                   ELSE /\ rn'.player.jumping
                        /\ rn'.player.jumpVelocity = v
                        /\ rn'.player.y = y]_vars

\* a falling player whose next tick would take it through the ground line
LandingWitness ==
    /\ rn.gameRunning /\ rn.player.jumping
    /\ rn.player.y + rn.player.jumpVelocity + Gravity > OnGround

\* C17: the difficulty of the Runner only tightens: no step raises the spawn
\* rate, the spawn rate is never below its minimum of 60, and no tick of a
\* session lowers the game speed.
DifficultyTightens ==
    /\ [](rn.spawnRate >= MinSpawnRate)
    /\ [][rn'.spawnRate <= rn.spawnRate]_vars
    /\ [][RunnerFrame => rn'.gameSpeed >= rn.gameSpeed]_vars

\* a session that has spawned at the least spawn rate after its speed rose
HardestWitness ==
    /\ rn.gameRunning /\ rn.spawnRate = MinSpawnRate /\ rn.gameSpeed > StartSpeed
    /\ rn.frameCount > 0 /\ rn.frameCount % MinSpawnRate = 0 /\ rn.obstacles # <<>>

\* the obstacle is at least partly right of the left edge of the canvas
Visible(o) == o.x + o.width >= 0

\* the obstacles of the Runner record r after a move to the left by its speed
MovedLeft(r) == [i \in 1..Len(r.obstacles) |-> [r.obstacles[i] EXCEPT !.x = @ - r.gameSpeed]]

BoxesOverlap(pl, o) ==
    /\ PlayerX < o.x + o.width /\ o.x < PlayerX + PlayerWidth
    /\ pl.y < o.y + o.height /\ o.y < pl.y + PlayerHeight

\* the player of the Runner record r overlaps one of its obstacles
Hit(r) == \E i \in 1..Len(r.obstacles) : BoxesOverlap(r.player, r.obstacles[i])

\* C19: a Runner tick ends the session (running flag false, interval
\* cleared) exactly when, after the movement of the tick, the box of the
\* player strictly overlaps the box of an obstacle; in a running session the
\* player overlaps no obstacle.
CollisionEndsSession ==
    /\ [](rn.gameRunning => ~Hit(rn))
    /\ [][RunnerFrame
             => /\ rn'.gameRunning = ~Hit(rn')
                /\ rn'.gameLoop = ~Hit(rn')]_vars

\* a running session in which an obstacle touches the box of the player
\* without overlapping it
TouchingWitness ==
    /\ rn.gameRunning
    /\ \E i \in 1..Len(rn.obstacles) :
         /\ OverlapsTouching(rn.player, rn.obstacles[i])
         /\ ~BoxesOverlap(rn.player, rn.obstacles[i])

\* the number of rows plus the number of columns between two cells
Distance(a, b) ==
    (IF a.row > b.row THEN a.row - b.row ELSE b.row - a.row)
        + (IF a.col > b.col THEN a.col - b.col ELSE b.col - a.col)

\* z is the Puzzle record pz after the tile of cell q has moved to the empty cell
Swapped(z, q) ==
    /\ z.board.emptyTile = q
    /\ z.board.grid[q] = Blank
    /\ z.board.grid[pz.board.emptyTile] = pz.board.grid[q]
    /\ \A o \in Positions(pz.board.built) \ {q, pz.board.emptyTile} :
          z.board.grid[o] = pz.board.grid[o]
    /\ z.moves = pz.moves + 1

\* C20: in the Puzzle a click while no session runs, or on a tile that is
\* not orthogonally adjacent to the empty cell, changes neither the
\* arrangement nor the empty cell nor the move counter; a click on an
\* adjacent tile swaps it with the empty cell and adds one to the moves.
OnlyAdjacentTilesMove ==
    /\ [](\A q \in Positions(pz.board.built) :
             IF Distance(q, pz.board.emptyTile) = 1
             THEN Swapped(moveTile(pz, q), q)
             ELSE moveTile(pz, q) = pz)
    /\ [][PuzzleClick
             => \/ pz' = pz
                \/ /\ pz.gameRunning
                   /\ Distance(pz'.board.emptyTile, pz.board.emptyTile) = 1
                   /\ Swapped(pz', pz'.board.emptyTile)]_vars

\* a running session in which two tiles have been moved
TilesMovedWitness == pz.gameRunning /\ pz.moves >= 2

\* the cell that createGrid leaves empty in a grid of size `size`
LastCell(size) == Pos(size - 1, size - 1)

\* C21: in every reachable state of the Puzzle exactly one cell of the grid
\* is empty, emptyTile names that cell, and the other cells hold every tile
\* that createGrid made exactly once.
TilesArePermuted ==
    LET b == pz.board
        cells == Positions(b.built)
    IN /\ b.emptyTile \in cells
       /\ \A q \in cells : (b.grid[q] = Blank) = (q = b.emptyTile)
       /\ {b.grid[q] : q \in cells \ {b.emptyTile}} = cells \ {LastCell(b.built)}

\* a running session in which the player has moved the empty cell off its corner
EmptyMovedWitness ==
    pz.gameRunning /\ pz.moves >= 1 /\ pz.board.emptyTile # LastCell(pz.board.built)

\* the place of a cell in the row-major order of a grid of size `size`
CellIndex(q, size) == q.row * size + q.col

\* the home place of the content of cell q of board b (the empty cell counts
\* as the tile of the last cell)
HomeIndex(b, q) ==
    IF b.grid[q] = Blank THEN CellIndex(LastCell(b.built), b.built)
    ELSE CellIndex(b.grid[q], b.built)

\* the pairs of cells whose contents are in the reverse of their home order
Inversions(b) ==
    {pair \in Positions(b.built) \X Positions(b.built) :
        /\ CellIndex(pair[1], b.built) < CellIndex(pair[2], b.built)
        /\ HomeIndex(b, pair[1]) > HomeIndex(b, pair[2])}

\* the solved board is reachable from b by moves of the empty cell to an
\* orthogonal neighbour: the permutation of the cells has the parity of the
\* distance of the empty cell from its corner
Solvable(b) ==
    Cardinality(Inversions(b)) % 2 = Distance(b.emptyTile, LastCell(b.built)) % 2

\* C22: after the shuffle of the Puzzle and after every move of the player
\* the configuration is solvable.
AlwaysSolvable == Solvable(pz.board)

\* a running session whose empty cell is back in its corner while tiles are
\* still out of place
ScrambledWitness ==
    /\ pz.gameRunning /\ pz.moves >= 1
    /\ pz.board.emptyTile = LastCell(pz.board.built)
    /\ \E q \in Positions(pz.board.built) : pz.board.grid[q] \notin {q, Blank}

\* the cards of Memory that are face-up and not matched
FaceUpUnmatched(m) == m.flipped \cap m.listening

\* C23: in a game of Memory without restart at most two cards are face-up
\* without being matched; while a mismatched pair is shown (its timeout is
\* pending) the board is locked and no click has an effect; when the timeout
\* runs both cards are face-down again and the board is unlocked.
MismatchLocksBoard ==
    /\ [](Cardinality(FaceUpUnmatched(mem)) <= 2)
    /\ [](mem.new > 0 => mem.lockBoard)
    /\ [][(MemClick /\ mem.new > 0) => mem' = mem]_vars
    /\ [][MemUnflip
             => /\ mem'.flipped = mem.flipped \ {mem.firstCard, mem.secondCard}
                /\ FaceUpUnmatched(mem') = {}
                /\ ~mem'.lockBoard]_vars

\* the second mismatched pair of a game is being shown
MismatchShownWitness ==
    /\ mem.lockBoard /\ mem.new > 0 /\ mem.moves >= 2
    /\ mem.deck[mem.firstCard] # mem.deck[mem.secondCard]

\* C24: a game of Memory has a time limit: as long as pairs are unmatched a
\* timer of the game is pending, whose expiry ends the game.  The timeouts
\* of the page are those counted in `old` and `new`.
GameTimerRuns == mem.listening # {} => mem.old + mem.new > 0

\* no cell of the Tic-Tac-Toe board b holds a mark
BoardEmpty(b) == \A i \in TttCells : b[i] = ""

\* the number of cells of the board b that hold the mark
Marks(b, mark) == Cardinality({i \in TttCells : b[i] = mark})

\* the step writes no mark but the given one
WritesOnly(mark) == \A i \in TttCells : tt'.board[i] # tt.board[i] => tt'.board[i] = mark

\* C25: a Tic-Tac-Toe click on a filled cell, or any click after the game has
\* ended, changes neither the board nor the current player nor the
\* game-active flag and schedules no AI move.
FilledOrEndedClickIsNoOp ==
    /\ [](\A i \in TttCells :
             (tt.board[i] # "" \/ ~tt.gameActive) => handleCellClick(tt, i) = tt)
    /\ [][TttClick => \A i \in TttCells : tt.board[i] # "" => tt'.board[i] = tt.board[i]]_vars
    /\ [][(TttClick /\ ~tt.gameActive) => tt' = tt]_vars

\* a game that has ended with cells left to click, no AI move pending
EndedWithEmptyCellsWitness ==
    ~tt.gameActive /\ tt.pending = 0 /\ \E i \in TttCells : tt.board[i] = ""

\* C26: after resetGame the Tic-Tac-Toe board is empty, X is to move and the
\* game is active, and an empty board stays empty until the next click of
\* the human, also when a makeAIMove timeout was pending at the reset.
ResetCancelsAIMove ==
    /\ [][TttReset => /\ BoardEmpty(tt'.board)
                      /\ tt'.currentPlayer = "X"
                      /\ tt'.gameActive]_vars
    /\ [][(BoardEmpty(tt.board) /\ ~TttClick) => BoardEmpty(tt'.board)]_vars

\* C27: in Tic-Tac-Toe every mark that a click of the human writes is X,
\* every mark that makeAIMove writes is O, and the board holds as many X as
\* O or one more.
HumanXComputerO ==
    /\ [](Marks(tt.board, "X") - Marks(tt.board, "O") \in {0, 1})
    /\ [][TttClick => WritesOnly("X")]_vars
    /\ [][TttAIMove => WritesOnly("O")]_vars

\* C28: once a Tic-Tac-Toe game has ended the board does not change until
\* resetGame, whatever clicks and makeAIMove timeouts follow.
BoardFrozenAfterEnd ==
    [][(~tt.gameActive /\ ~TttReset) => tt'.board = tt.board]_vars

\* the rows, columns and diagonals of the board
Lines ==
    {{3 * r, 3 * r + 1, 3 * r + 2} : r \in 0..2}
        \cup {{c, c + 3, c + 6} : c \in 0..2}
        \cup {{0, 4, 8}, {2, 4, 6}}

\* the board b holds a full line of the mark
HasLine(b, mark) == \E line \in Lines : \A i \in line : b[i] = mark

\* C29: after each Tic-Tac-Toe move the game is declared won by the mover
\* exactly when the board holds a full row, column or diagonal of the mover's
\* mark, and drawn exactly when the board is full and holds no such line.
WinAndDrawDeclared ==
    [][\A i \in TttCells :
          (tt.board[i] = "" /\ tt'.board[i] # "")
             => LET mark == tt'.board[i]
                    full == \A j \in TttCells : tt'.board[j] # ""
                IN /\ (tt'.status = StatusLine("wins", mark)) = HasLine(tt'.board, mark)
                   /\ (tt'.status.kind = "draw") = (full /\ ~HasLine(tt'.board, mark))
                   /\ tt'.gameActive = (tt'.status.kind = "turn")]_vars

\* a game won with the ninth mark on a diagonal
NinthMarkWinsWitness ==
    /\ \A i \in TttCells : tt.board[i] # ""
    /\ tt.status.kind = "wins" /\ ~tt.gameActive
    /\ \E line \in {{0, 4, 8}, {2, 4, 6}} : \A i \in line : tt.board[i] = tt.status.who

\* C30: a started Whack-a-Mole session that is not reset stops by timeout
\* after exactly 30 ticks of the countdown: a session starts at timeLeft 30,
\* every tick takes one off and the session stops on the tick that reaches
\* 0; timeLeft is always within 0..30; in a stopped session neither a click
\* nor the callback of a mole timer changes the score or the moles.
SessionTimesOut ==
    /\ [](wh.timeLeft \in 0..GameSeconds)
    /\ [][(~wh.gameRunning /\ wh'.gameRunning) => wh'.timeLeft = GameSeconds]_vars
    /\ [][(wh.gameRunning /\ WhackCountdown)
             => /\ wh'.timeLeft = wh.timeLeft - 1
                /\ wh'.gameRunning = (wh'.timeLeft > 0)]_vars
    /\ [](~wh.gameRunning => \A i \in MoleIds : MoleTimeoutBody(wh, i) = wh)
    /\ [][(~wh.gameRunning /\ WhackClick)
             => (wh'.score = wh.score /\ wh'.active = wh.active)]_vars
    /\ (wh.gameRunning ~> (~wh.gameRunning /\ wh.timeLeft = 0))

\* a session that the countdown has stopped with a hit counted and a mole
\* still shown
TimedOutWitness ==
    ~wh.gameRunning /\ wh.timeLeft = 0 /\ wh.score > 0 /\ wh.active # {}

\* C31: every Runner session begins from the same state: right after
\* startGame (also after a game over or a resetGame) the score and the frame
\* counter are 0, the game speed is 5, the spawn rate is 100, there are no
\* obstacles and the player stands on the ground, not jumping.
SessionsStartAlike ==
    [][(~rn.gameRunning /\ rn'.gameRunning)
          => /\ rn'.score = 0 /\ rn'.frameCount = 0
             /\ rn'.gameSpeed = StartSpeed
             /\ rn'.spawnRate = StartSpawnRate
             /\ rn'.obstacles = <<>>
             /\ rn'.player = [y |-> OnGround, jumping |-> FALSE, jumpVelocity |-> 0]]_vars

\* C32: every createFood call of Snake returns, also the one after the meal
\* that fills the grid: the page is never caught in the loop of createFood.
CreateFoodReturns == page # "frozen"

\* every tile of the board b is in the cell it was made for and the last
\* cell is empty
InSolvedConfiguration(b) ==
    /\ b.emptyTile = LastCell(b.built)
    /\ \A q \in Positions(b.built) \ {LastCell(b.built)} : b.grid[q] = q

\* C33: while a Puzzle session is running the board is never in the solved
\* configuration: the shuffle of startGame does not leave it solved, and the
\* move that solves it stops the session in the same step.
NeverSolvedWhileRunning == pz.gameRunning => ~InSolvedConfiguration(pz.board)

\* C34: in every reachable state of the Puzzle gridSize is the size of the
\* grid that createGrid built last and emptyTile is a cell of that grid, so
\* a running session is found solved exactly when its board is solved.
GridSizeMatchesGrid ==
    /\ pz.gridSize = pz.board.built
    /\ pz.board.emptyTile \in Positions(pz.gridSize)
    /\ pz.gameRunning =>
          (isPuzzleSolved(pz.board, pz.gridSize) = InSolvedConfiguration(pz.board))

\* C35: the score of Whack-a-Mole rises by at most one per mole that
\* showRandomMole shows: a step that raises it is a click of a running
\* session on the active, not yet whacked mole, it raises it by one and
\* leaves no mole active, and only startGame and the mole timer make a mole
\* active again.
OneHitPerMole ==
    /\ [][wh'.score > wh.score
             => /\ WhackClick /\ wh.gameRunning
                /\ wh'.score = wh.score + 1
                /\ \E i \in wh.active \ wh.whacked :
                      wh'.whacked = wh.whacked \cup {i} /\ wh'.active = {}]_vars
    /\ [][(wh.active = {} /\ wh'.active # {}) => (WhackStart \/ WhackMoleExpire)]_vars

\* a second mole of a session has been hit and no mole is active
SecondHitWitness == wh.gameRunning /\ wh.score >= 2 /\ wh.whacked # {} /\ wh.active = {}
====
